---- MODULE Spec2Model ----
(***************************************************************************)
(* KnowShowGoClient (src/python/client.py): a synchronous REST client.     *)
(* Every public method builds a request, hands it to the shared session    *)
(* once, checks the status, decodes the JSON body and returns the body or  *)
(* one field of it.  The remote server is the environment: each call is    *)
(* answered by one response drawn from Responses.                          *)
(*                                                                         *)
(* JSON / Python values are tagged records so that null, "", [], {} and    *)
(* numbers stay distinct.  Strings that are formatted into a URL are kept  *)
(* as sequences of tokens; "/" is a token of its own in the base URL so    *)
(* that rstrip('/') is computed, not assumed.                              *)
(***************************************************************************)
EXTENDS Integers, Sequences, FiniteSets, TLC

VARIABLES base_url, ctor_arg, calls, sent, last_call, last_request,
          last_response, outcome

vars == <<base_url, ctor_arg, calls, sent, last_call, last_request,
          last_response, outcome>>

(* ----------------------------- bounds ---------------------------------- *)

MaxCalls == 2
MaxSlashes == 2

(* --------------------------- Python values ------------------------------ *)

None == [t |-> "null"]
Str(s) == [t |-> "str", v |-> s]
Num(n) == [t |-> "int", v |-> n]
Float(s) == [t |-> "float", v |-> s]
List(l) == [t |-> "list", v |-> l]
Map(m) == [t |-> "map", v |-> m]

\* a parameter the caller did not pass
Missing == [t |-> "missing"]
\* a keyword argument (params= / json=) that the method does not give to _request
NoKw == [t |-> "nokw"]

EmptyMap == Map(<<>>)
EmptyList == List(<<>>)

\* Python default-parameter binding: the default is used when the caller omits the argument
Param(arg, default) == IF arg = Missing THEN default ELSE arg

\* Python truthiness of a value
Truthy(x) ==
    CASE x.t = "null" -> FALSE
      [] x.t = "str" -> x.v # ""
      [] x.t = "int" -> x.v # 0
      [] x.t = "float" -> x.v # "0.0"
      [] x.t = "list" -> x.v # <<>>
      [] x.t = "map" -> DOMAIN x.v # {}
      [] OTHER -> TRUE

\* mutant: `x or d` replaced by plain x
PyOr_noDefault(x, d) == x

\* Python `x or d`
PyOr(x, d) == IF Truthy(x) THEN x ELSE d

(* --------------------------- call outcomes ------------------------------ *)

Return(v) == [kind |-> "return", value |-> v]
Raise(e, s) == [kind |-> "raise", exc |-> e, status |-> s]

\* mutant: result[key] replaced by the whole result
Subscript_whole(result, key) == Return(result)

\* Python `result[key]` on a decoded JSON value with a string key
Subscript(result, key) ==
    IF result.t = "map"
    THEN IF key \in DOMAIN result.v THEN Return(result.v[key])
         ELSE Raise("KeyError", 0)
    ELSE Raise("TypeError", 0)

(* ------------------------------ server ---------------------------------- *)

Statuses == {200, 404, 500}

\* an empty body: not decodable as JSON
EmptyBody == [t |-> "undecodable"]

Bodies ==
    { EmptyBody,
      EmptyMap,
      Map([uuid |-> Str("u-1")]),
      Map([uuid |-> Str("u-2"),
           results |-> List(<<Map([score |-> Float("0.9")]), Map([score |-> Float("0.8")])>>),
           associations |-> List(<<Map([relationType |-> Str("relatesTo")])>>)]),
      List(<<Str("x")>>) }

TransportFailure == [kind |-> "transport"]

\* bodies the server sends along with an error status
ErrorBodies == {EmptyBody, EmptyMap}

Responses ==
    {TransportFailure} \cup
    {[kind |-> "http", status |-> s, body |-> b] :
        s \in {c \in Statuses : c < 400}, b \in Bodies} \cup
    {[kind |-> "http", status |-> s, body |-> b] :
        s \in {c \in Statuses : c >= 400}, b \in ErrorBodies}

(* ------------------------------ client ---------------------------------- *)

\* a URL string: the sequence of its tokens
Url(tokens) == [t |-> "url", v |-> tokens]

DefaultBaseUrl == Url(<<"http://localhost:3000">>)

\* mutant: only one trailing "/" is removed
rstrip_one(s) ==
    IF s # <<>> /\ s[Len(s)] = "/" THEN SubSeq(s, 1, Len(s) - 1) ELSE s

RECURSIVE rstrip(_)
\* str.rstrip('/'): removes every trailing "/"
rstrip(s) ==
    IF s # <<>> /\ s[Len(s)] = "/" THEN rstrip(SubSeq(s, 1, Len(s) - 1)) ELSE s

\* __init__: the stored base URL
init_base_url(arg) == rstrip(Param(arg, DefaultBaseUrl).v)

\* Response.raise_for_status: HTTPError for 4xx and 5xx
raises_for_status(status) == 400 <= status /\ status < 600

\* mutant: a failed exchange is sent a second time
request_retry(base, method, endpoint, params, json, resp) ==
    LET url == base \o endpoint
        req == [method |-> method, url |-> url, params |-> params, json |-> json]
        failed == \/ resp.kind = "transport"
                  \/ raises_for_status(resp.status)
                  \/ resp.body.t = "undecodable"
    IN  [sent |-> IF failed THEN 2 ELSE 1,
         request |-> req,
         result |-> IF resp.kind = "transport" THEN Raise("ConnectionError", 0)
                    ELSE IF raises_for_status(resp.status) THEN Raise("HTTPError", resp.status)
                    ELSE IF resp.body.t = "undecodable" THEN Raise("JSONDecodeError", 0)
                    ELSE Return(resp.body)]

\* mutant: the status is not checked
request_noStatusCheck(base, method, endpoint, params, json, resp) ==
    [sent |-> 1,
     request |-> [method |-> method, url |-> base \o endpoint, params |-> params, json |-> json],
     result |-> IF resp.kind = "transport" THEN Raise("ConnectionError", 0)
                ELSE IF resp.body.t = "undecodable" THEN Raise("JSONDecodeError", 0)
                ELSE Return(resp.body)]

\* mutant: an undecodable body is read as null
request_lenientJson(base, method, endpoint, params, json, resp) ==
    [sent |-> 1,
     request |-> [method |-> method, url |-> base \o endpoint, params |-> params, json |-> json],
     result |-> IF resp.kind = "transport" THEN Raise("ConnectionError", 0)
                ELSE IF raises_for_status(resp.status) THEN Raise("HTTPError", resp.status)
                ELSE IF resp.body.t = "undecodable" THEN Return(None)
                ELSE Return(resp.body)]

\* mutant: the decoded body is unwrapped to its "data" field, {} when absent
request_unwrap(base, method, endpoint, params, json, resp) ==
    [sent |-> 1,
     request |-> [method |-> method, url |-> base \o endpoint, params |-> params, json |-> json],
     result |-> IF resp.kind = "transport" THEN Raise("ConnectionError", 0)
                ELSE IF raises_for_status(resp.status) THEN Raise("HTTPError", resp.status)
                ELSE IF resp.body.t = "undecodable" THEN Raise("JSONDecodeError", 0)
                ELSE IF resp.body.t = "map" /\ "data" \in DOMAIN resp.body.v
                     THEN Return(resp.body.v["data"])
                     ELSE Return(EmptyMap)]

\* _request: one session.request, raise_for_status, response.json
_request(base, method, endpoint, params, json, resp) ==
    LET url == base \o endpoint
        req == [method |-> method, url |-> url, params |-> params, json |-> json]
    IN  [sent |-> 1,
         request |-> req,
         result |-> IF resp.kind = "transport" THEN Raise("ConnectionError", 0)
                    ELSE IF raises_for_status(resp.status) THEN Raise("HTTPError", resp.status)
                    ELSE IF resp.body.t = "undecodable" THEN Raise("JSONDecodeError", 0)
                    ELSE Return(resp.body)]

\* `return result[key]` after a _request: an exception of _request propagates
ReturnField(r, key) ==
    IF r.result.kind = "raise" THEN r.result ELSE Subscript(r.result.value, key)

\* `return self._request(...)`
ReturnBody(r) == r.result

\* mutant: the decoded body is returned by a method declared to return None
ReturnNothing_body(r) == r.result

\* a method whose body ends after the _request: returns None
ReturnNothing(r) == IF r.result.kind = "raise" THEN r.result ELSE Return(None)

\* the state change common to every public method
Finish(op, args, resp, r, out) ==
    /\ calls < MaxCalls
    /\ calls' = calls + 1
    /\ sent' = sent + r.sent
    /\ last_call' = [op |-> op, args |-> args]
    /\ last_request' = r.request
    /\ last_response' = resp
    /\ outcome' = out
    /\ UNCHANGED <<base_url, ctor_arg>>

(* --------------------------- argument values ---------------------------- *)

OptStr(s) == {Missing, Str(s)}
OptList(x) == {Missing, List(<<x>>)}
Embeddings == {Missing, List(<<Float("0.1"), Float("0.2")>>)}
Uuids == {Str("c-1"), Str("missing")}
DefaultTopK == 10
DefaultSimilarityThreshold == Float("0.7")
DefaultStrength == Float("1.0")
DefaultDirection == Str("both")

(* ------------------------------ prototypes ------------------------------ *)

create_prototype_data(name, description, context, labels, embedding, parent_prototype_uuids) ==
    Map([name |-> name,
         description |-> description,
         context |-> context,
         labels |-> PyOr(labels, EmptyList),
         embedding |-> embedding,
         parentPrototypeUuids |-> parent_prototype_uuids])

create_prototype ==
    \E name \in {Str("Person")}, description \in OptStr("A human"), context \in OptStr("ctx"),
       labels \in OptList(Str("person")), embedding \in Embeddings,
       parents \in OptList(Str("p-0")), resp \in Responses :
        LET args == [name |-> name, description |-> description, context |-> context,
                     labels |-> labels, embedding |-> embedding,
                     parent_prototype_uuids |-> parents]
            data == create_prototype_data(name, Param(description, None), Param(context, None),
                                          Param(labels, None), Param(embedding, None),
                                          Param(parents, None))
            r == _request(base_url, "POST", <<"/api/prototypes">>, NoKw, data, resp)
        IN  Finish("create_prototype", args, resp, r, ReturnField(r, "uuid"))

get_prototype ==
    \E uuid \in Uuids, resp \in Responses :
        LET r == _request(base_url, "GET", <<"/api/prototypes/", uuid.v>>, NoKw, NoKw, resp)
        IN  Finish("get_prototype", [uuid |-> uuid], resp, r, ReturnBody(r))

(* ------------------------------- concepts ------------------------------- *)

create_concept_data(prototype_uuid, json_obj, embedding, previous_version_uuid) ==
    Map([prototypeUuid |-> prototype_uuid,
         jsonObj |-> json_obj,
         embedding |-> embedding,
         previousVersionUuid |-> previous_version_uuid])

create_concept ==
    \E prototype_uuid \in {Str("p-1")}, json_obj \in {Map([name |-> Str("John Doe")])},
       embedding \in Embeddings, previous \in OptStr("c-0"), resp \in Responses :
        LET args == [prototype_uuid |-> prototype_uuid, json_obj |-> json_obj,
                     embedding |-> embedding, previous_version_uuid |-> previous]
            data == create_concept_data(prototype_uuid, json_obj, Param(embedding, None),
                                        Param(previous, None))
            r == _request(base_url, "POST", <<"/api/concepts">>, NoKw, data, resp)
        IN  Finish("create_concept", args, resp, r, ReturnField(r, "uuid"))

get_concept ==
    \E uuid \in {Str("c-1")}, resp \in Responses :
        LET r == _request(base_url, "GET", <<"/api/concepts/", uuid.v>>, NoKw, NoKw, resp)
        IN  Finish("get_concept", [uuid |-> uuid], resp, r, ReturnBody(r))

\* mutant: topK is not taken from the argument
search_concepts_data_fixedTopK(query, top_k, similarity_threshold, prototype_filter) ==
    Map([query |-> query,
         topK |-> Num(DefaultTopK),
         similarityThreshold |-> similarity_threshold,
         prototypeFilter |-> prototype_filter])

search_concepts_data(query, top_k, similarity_threshold, prototype_filter) ==
    Map([query |-> query,
         topK |-> top_k,
         similarityThreshold |-> similarity_threshold,
         prototypeFilter |-> prototype_filter])

search_concepts ==
    \E query \in {Str("q")}, top_k \in {Missing, Num(5)},
       similarity_threshold \in {Missing, Float("0.5")},
       prototype_filter \in OptStr("Person"), resp \in Responses :
        LET args == [query |-> query, top_k |-> top_k,
                     similarity_threshold |-> similarity_threshold,
                     prototype_filter |-> prototype_filter]
            data == search_concepts_data(query, Param(top_k, Num(DefaultTopK)),
                        Param(similarity_threshold, DefaultSimilarityThreshold),
                        Param(prototype_filter, None))
            r == _request(base_url, "POST", <<"/api/concepts/search">>, NoKw, data, resp)
        IN  Finish("search_concepts", args, resp, r, ReturnField(r, "results"))

(* ----------------------------- associations ----------------------------- *)

add_association_data(from_concept_uuid, to_concept_uuid, relation_type, strength) ==
    Map([fromConceptUuid |-> from_concept_uuid,
         toConceptUuid |-> to_concept_uuid,
         relationType |-> relation_type,
         strength |-> strength])

add_association ==
    \E from \in {Str("c-1")}, to \in {Str("c-2")}, relation_type \in {Str("relatesTo")},
       strength \in {Missing, Float("0.5")}, resp \in Responses :
        LET args == [from_concept_uuid |-> from, to_concept_uuid |-> to,
                     relation_type |-> relation_type, strength |-> strength]
            data == add_association_data(from, to, relation_type,
                                         Param(strength, DefaultStrength))
            r == _request(base_url, "POST", <<"/api/associations">>, NoKw, data, resp)
        IN  Finish("add_association", args, resp, r, ReturnNothing(r))

\* mutant: a direction outside in/out/both is replaced by the default
get_associations_params_validated(direction) ==
    Map([direction |-> IF direction \in {Str("in"), Str("out"), Str("both")}
                       THEN direction ELSE DefaultDirection])

get_associations_params(direction) == Map([direction |-> direction])

get_associations ==
    \E uuid \in {Str("c-1")}, direction \in {Missing, Str("in"), Str("sideways")},
       resp \in Responses :
        LET args == [uuid |-> uuid, direction |-> direction]
            params == get_associations_params(Param(direction, DefaultDirection))
            r == _request(base_url, "GET", <<"/api/associations/", uuid.v>>, params, NoKw, resp)
        IN  Finish("get_associations", args, resp, r, ReturnField(r, "associations"))

(* -------------------------- nodes with document ------------------------- *)

create_node_with_document_data(label, summary, tags, metadata, associations, prototype_uuid) ==
    Map([label |-> label,
         summary |-> summary,
         tags |-> PyOr(tags, EmptyList),
         metadata |-> PyOr(metadata, EmptyMap),
         associations |-> PyOr(associations, EmptyList),
         prototypeUuid |-> prototype_uuid])

create_node_with_document ==
    \E label \in {Str("doc")}, summary \in OptStr("sum"), tags \in OptList(Str("tag")),
       metadata \in {Missing, Map([k |-> Str("v")])},
       associations \in OptList(Map([relationType |-> Str("relatesTo")])),
       prototype_uuid \in OptStr("p-1"), resp \in Responses :
        LET args == [label |-> label, summary |-> summary, tags |-> tags,
                     metadata |-> metadata, associations |-> associations,
                     prototype_uuid |-> prototype_uuid]
            data == create_node_with_document_data(label, Param(summary, None),
                        Param(tags, None), Param(metadata, None),
                        Param(associations, None), Param(prototype_uuid, None))
            r == _request(base_url, "POST", <<"/api/nodes">>, NoKw, data, resp)
        IN  Finish("create_node_with_document", args, resp, r, ReturnField(r, "uuid"))

update_node_embedding ==
    \E uuid \in {Str("c-1")}, resp \in Responses :
        LET r == _request(base_url, "POST", <<"/api/nodes/", uuid.v, "/embedding">>,
                          NoKw, NoKw, resp)
        IN  Finish("update_node_embedding", [uuid |-> uuid], resp, r, ReturnNothing(r))

(* --------------------------------- ORM ---------------------------------- *)

register_prototype_data(prototype_name, options) ==
    Map([prototypeName |-> prototype_name,
         options |-> PyOr(options, EmptyMap)])

register_prototype ==
    \E prototype_name \in {Str("Person")}, options \in {Missing, Map([strict |-> Str("yes")])},
       resp \in Responses :
        LET args == [prototype_name |-> prototype_name, options |-> options]
            data == register_prototype_data(prototype_name, Param(options, None))
            r == _request(base_url, "POST", <<"/api/orm/register">>, NoKw, data, resp)
        IN  Finish("register_prototype", args, resp, r, ReturnNothing(r))

create_instance_data(properties) == Map([properties |-> properties])

create_instance ==
    \E prototype_name \in {Str("Person")}, properties \in {Map([name |-> Str("John Doe")])},
       resp \in Responses :
        LET args == [prototype_name |-> prototype_name, properties |-> properties]
            r == _request(base_url, "POST", <<"/api/orm/", prototype_name.v, "/create">>,
                          NoKw, create_instance_data(properties), resp)
        IN  Finish("create_instance", args, resp, r, ReturnBody(r))

get_instance ==
    \E prototype_name \in {Str("Person")}, uuid \in {Str("c-1")}, resp \in Responses :
        LET args == [prototype_name |-> prototype_name, uuid |-> uuid]
            r == _request(base_url, "GET", <<"/api/orm/", prototype_name.v, "/", uuid.v>>,
                          NoKw, NoKw, resp)
        IN  Finish("get_instance", args, resp, r, ReturnBody(r))

(* ----------------------------- health check ----------------------------- *)

health_check ==
    \E resp \in Responses :
        LET r == _request(base_url, "GET", <<"/health">>, NoKw, NoKw, resp)
        IN  Finish("health_check", <<>>, resp, r, ReturnBody(r))

(* ---------------------------- specification ----------------------------- *)

Slashes(n) == [i \in 1..n |-> "/"]

\* the base URLs a caller constructs the client with
BaseUrlArgs ==
    {Missing} \cup {Url(<<"http://kg.example">> \o Slashes(n)) : n \in 0..MaxSlashes}

NoCall == [op |-> "none", args |-> <<>>]
NoRequest == [method |-> "none", url |-> <<>>, params |-> NoKw, json |-> NoKw]
NoOutcome == [kind |-> "none"]

Init ==
    /\ ctor_arg \in BaseUrlArgs
    /\ base_url = init_base_url(ctor_arg)
    /\ calls = 0
    /\ sent = 0
    /\ last_call = NoCall
    /\ last_request = NoRequest
    /\ last_response = [kind |-> "none"]
    /\ outcome = NoOutcome

Next ==
    \/ create_prototype
    \/ get_prototype
    \/ create_concept
    \/ get_concept
    \/ search_concepts
    \/ add_association
    \/ get_associations
    \/ create_node_with_document
    \/ update_node_embedding
    \/ register_prototype
    \/ create_instance
    \/ get_instance
    \/ health_check

Spec == Init /\ [][Next]_vars

(* ------------------------------ properties ------------------------------ *)

Called == calls > 0
Op == last_call.op
Args == last_call.args
SuccessStatus == last_response.kind = "http" /\ last_response.status \in 200..299
ErrorStatus == last_response.kind = "http" /\ last_response.status \in 400..599
BodyIsMap == last_response.body.t = "map"

\* C1: whatever the method, a response with a 4xx/5xx status makes the call
\* raise an HTTP error carrying that status; nothing is returned, in
\* particular get_prototype on a 404 never returns a mapping.
C1_ErrorStatusFails ==
    (Called /\ ErrorStatus) =>
        /\ outcome = Raise("HTTPError", last_response.status)
        /\ outcome.kind # "return"

C1_Witness ==
    /\ Op = "get_prototype"
    /\ Args.uuid = Str("missing")
    /\ last_response = [kind |-> "http", status |-> 404, body |-> EmptyMap]
    /\ outcome = Raise("HTTPError", 404)

CreateStyle == {"create_prototype", "create_concept", "create_node_with_document"}

\* C3: a create-style method answered with a success status and the body
\* {"uuid": X} returns exactly X.
C3_CreateReturnsUuid ==
    (Called /\ Op \in CreateStyle /\ SuccessStatus /\ BodyIsMap
        /\ DOMAIN last_response.body.v = {"uuid"}) =>
        outcome = Return(last_response.body.v["uuid"])

C3_Witness ==
    /\ Op = "create_node_with_document"
    /\ last_response = [kind |-> "http", status |-> 200, body |-> Map([uuid |-> Str("u-1")])]
    /\ outcome = Return(Str("u-1"))

GetStyle == {"get_prototype", "get_concept", "get_instance", "health_check"}

\* C4: a get-style method answered with a success status and a JSON mapping M
\* returns exactly M.
C4_GetReturnsBody ==
    (Called /\ Op \in GetStyle /\ SuccessStatus /\ BodyIsMap) =>
        outcome = Return(last_response.body)

C4_Witness ==
    /\ Op = "get_instance"
    /\ SuccessStatus
    /\ BodyIsMap
    /\ DOMAIN last_response.body.v = {"uuid", "results", "associations"}
    /\ outcome = Return(last_response.body)

\* the optional parameters of each method and the body field each is sent as
OptionalFields ==
    [create_prototype |->
        [description |-> "description", context |-> "context", labels |-> "labels",
         embedding |-> "embedding", parent_prototype_uuids |-> "parentPrototypeUuids"],
     create_concept |->
        [embedding |-> "embedding", previous_version_uuid |-> "previousVersionUuid"],
     search_concepts |->
        [top_k |-> "topK", similarity_threshold |-> "similarityThreshold",
         prototype_filter |-> "prototypeFilter"],
     add_association |-> [strength |-> "strength"],
     get_associations |-> [direction |-> "direction"],
     create_node_with_document |->
        [summary |-> "summary", tags |-> "tags", metadata |-> "metadata",
         associations |-> "associations", prototype_uuid |-> "prototypeUuid"],
     register_prototype |-> [options |-> "options"]]

HasOptionals == Called /\ Op \in DOMAIN OptionalFields
Omitted == {p \in DOMAIN OptionalFields[Op] : Args[p] = Missing}
InBody(field) == last_request.json.t = "map" /\ field \in DOMAIN last_request.json.v
RequestWasSent == last_request.method \in {"GET", "POST"} /\ sent >= 1

\* the value an omitted optional parameter is sent as
OmittedValue ==
    [description |-> None, context |-> None, embedding |-> None,
     parentPrototypeUuids |-> None, previousVersionUuid |-> None,
     prototypeFilter |-> None, summary |-> None, prototypeUuid |-> None,
     labels |-> EmptyList, tags |-> EmptyList, associations |-> EmptyList,
     metadata |-> EmptyMap, options |-> EmptyMap,
     topK |-> Num(10), similarityThreshold |-> Float("0.7"), strength |-> Float("1.0")]

\* C5 as stated: every optional parameter the caller omits is null in the
\* request body or absent from it, and the request is sent.
C5_OmittedIsNullOrAbsent ==
    HasOptionals =>
        /\ RequestWasSent
        /\ \A p \in Omitted :
            LET field == OptionalFields[Op][p]
            IN  InBody(field) => last_request.json.v[field] = None

\* C5 amended: an omitted optional parameter is sent as null, except labels,
\* tags and associations (empty list), metadata and options (empty mapping),
\* top_k, similarity_threshold and strength (10, 0.7, 1.0); direction is a
\* query parameter and absent from the body.  Omitting any subset of the
\* optional parameters never prevents the request from being sent.
C5_OmittedIsDefault ==
    HasOptionals =>
        /\ RequestWasSent
        /\ \A p \in Omitted :
            LET field == OptionalFields[Op][p]
            IN  IF Op = "get_associations"
                THEN ~InBody(field)
                ELSE InBody(field) /\ last_request.json.v[field] = OmittedValue[field]

C5_Witness ==
    /\ Op = "create_prototype"
    /\ Omitted = DOMAIN OptionalFields["create_prototype"]
    /\ last_request.json.v["labels"] = EmptyList
    /\ last_request.json.v["description"] = None
    /\ RequestWasSent

\* the interface table: HTTP method and path of each operation
InterfaceTable ==
    [create_prototype |-> [method |-> "POST", path |-> <<"/api/prototypes">>],
     get_prototype |-> [method |-> "GET", path |-> <<"/api/prototypes/", "{uuid}">>],
     create_concept |-> [method |-> "POST", path |-> <<"/api/concepts">>],
     get_concept |-> [method |-> "GET", path |-> <<"/api/concepts/", "{uuid}">>],
     search_concepts |-> [method |-> "POST", path |-> <<"/api/concepts/search">>],
     add_association |-> [method |-> "POST", path |-> <<"/api/associations">>],
     get_associations |-> [method |-> "GET", path |-> <<"/api/associations/", "{uuid}">>],
     create_node_with_document |-> [method |-> "POST", path |-> <<"/api/nodes">>],
     update_node_embedding |->
        [method |-> "POST", path |-> <<"/api/nodes/", "{uuid}", "/embedding">>],
     register_prototype |-> [method |-> "POST", path |-> <<"/api/orm/register">>],
     create_instance |-> [method |-> "POST", path |-> <<"/api/orm/", "{name}", "/create">>],
     get_instance |-> [method |-> "GET", path |-> <<"/api/orm/", "{name}", "/", "{uuid}">>],
     health_check |-> [method |-> "GET", path |-> <<"/health">>]]

\* a path of the table with its placeholders filled from the caller's arguments
FilledPath(path, args) ==
    [i \in 1..Len(path) |->
        CASE path[i] = "{uuid}" -> args.uuid.v
          [] path[i] = "{name}" -> args.prototype_name.v
          [] OTHER -> path[i]]

\* b is url without its trailing slashes
IsStrippedOf(b, url) ==
    /\ Len(b) <= Len(url)
    /\ b = SubSeq(url, 1, Len(b))
    /\ \A i \in (Len(b) + 1)..Len(url) : url[i] = "/"
    /\ (b # <<>> => b[Len(b)] # "/")

ConstructionUrl == IF ctor_arg = Missing THEN <<"http://localhost:3000">> ELSE ctor_arg.v

\* C6: each operation sends the HTTP method of the interface table to the
\* construction-time base URL, trailing slashes stripped, followed by the
\* table's path filled with the caller's arguments; the stored base URL is the
\* stripped construction-time URL in every state.
C6_MethodAndUrl ==
    /\ IsStrippedOf(base_url, ConstructionUrl)
    /\ Called =>
        /\ last_request.method = InterfaceTable[Op].method
        /\ \E b \in {SubSeq(ConstructionUrl, 1, k) : k \in 0..Len(ConstructionUrl)} :
            /\ IsStrippedOf(b, ConstructionUrl)
            /\ last_request.url = b \o FilledPath(InterfaceTable[Op].path, Args)

C6_Witness ==
    /\ ctor_arg = Url(<<"http://kg.example", "/", "/">>)
    /\ Op = "get_instance"
    /\ last_request.method = "GET"
    /\ last_request.url = <<"http://kg.example", "/api/orm/", "Person", "/", "c-1">>
    /\ calls = 2
    /\ base_url = <<"http://kg.example">>

\* C7: search_concepts(q, top_k=k) with the other parameters omitted sends
\* exactly query=q, topK=k (10 when omitted), similarityThreshold=0.7,
\* prototypeFilter=null, and on a success response returns the `results`
\* field of the body as it is.
C7_SearchConcepts ==
    (Called /\ Op = "search_concepts") =>
        /\ (Args.similarity_threshold = Missing /\ Args.prototype_filter = Missing) =>
            last_request.json =
                Map([query |-> Args.query,
                     topK |-> IF Args.top_k = Missing THEN Num(10) ELSE Args.top_k,
                     similarityThreshold |-> Float("0.7"),
                     prototypeFilter |-> None])
        /\ (SuccessStatus /\ BodyIsMap /\ "results" \in DOMAIN last_response.body.v) =>
            outcome = Return(last_response.body.v["results"])

C7_Witness ==
    /\ Op = "search_concepts"
    /\ Args.top_k = Num(5)
    /\ Args.similarity_threshold = Missing
    /\ Args.prototype_filter = Missing
    /\ last_request.json.v["topK"] = Num(5)
    /\ outcome = Return(List(<<Map([score |-> Float("0.9")]), Map([score |-> Float("0.8")])>>))

C9_GetAssociations ==
    (Called /\ Op = "get_associations") =>
        /\ last_request.params =
            Map([direction |-> IF Args.direction = Missing THEN Str("both")
                               ELSE Args.direction])
        /\ (SuccessStatus /\ BodyIsMap /\ "associations" \in DOMAIN last_response.body.v) =>
            outcome = Return(last_response.body.v["associations"])

C9_Witness ==
    /\ Op = "get_associations"
    /\ Args.direction = Str("sideways")
    /\ last_request.params = Map([direction |-> Str("sideways")])
    /\ outcome = Return(List(<<Map([relationType |-> Str("relatesTo")])>>))

\* C10: whatever the method, a success status with a body that is not JSON
\* makes the call raise; the methods returning None raise as well.
C10_UndecodableBodyFails ==
    (Called /\ SuccessStatus /\ last_response.body.t = "undecodable") =>
        outcome = Raise("JSONDecodeError", 0)

C10_Witness ==
    /\ Op = "update_node_embedding"
    /\ last_response = [kind |-> "http", status |-> 200, body |-> EmptyBody]
    /\ outcome.kind = "raise"

====
